---- MODULE Spec2Model ----
(***************************************************************************)
(* HDAManager (lib/galaxy/managers/hdas.py): create, copy and purge of     *)
(* HistoryDatasetAssociations, the ownership/accessibility predicates,     *)
(* error_if_uploading and text_data.                                       *)
(*                                                                         *)
(* Python objects are identified by their position in the sequences `hdas` *)
(* and `datasets`; users and histories are small integers; None is 0.      *)
(***************************************************************************)
EXTENDS Integers, Sequences, FiniteSets, TLC

VARIABLES
    hdas,               \* every HistoryDatasetAssociation object built so far
    datasets,           \* every Dataset object
    hid_counter,        \* history -> the hid History._next_hid() hands out next
    total_disk_usage,   \* user -> User.total_disk_usage
    session,            \* the ORM session: objects added / changed since the last flush
    pc,                 \* position inside HDAManager.copy ("idle" between calls)
    frame,              \* locals of the running HDAManager.copy call
    call                \* the last completed call and what it returned

vars == <<hdas, datasets, hid_counter, total_disk_usage, session, pc, frame, call>>

----------------------------------------------------------------------------
\* Bounds of the model.

MaxHDAs == 2            \* HDA objects ever built in a behaviour
InitialDatasetSize == 2 \* bytes (in model units) of the pre-existing dataset

----------------------------------------------------------------------------
\* Values.

None == 0

Users == {1, 2}
Admins == {1}
Histories == {1, 2}

\* history.user: history 1 belongs to user 2, history 2 is an anonymous history.
HistoryUser == <<2, None>>

\* model.Dataset.states
UPLOAD == "upload"
States == {"new", UPLOAD, "queued", "running", "ok", "empty", "error",
           "discarded", "paused", "setting_metadata", "failed_metadata"}

\* Two datatypes: txt is a datatypes.data.Text whose peek is safe to copy;
\* gmaj.zip is not Text and its peek depends on the dataset id.
Extensions == {"txt", "gmaj.zip"}
IsText(ext) == ext = "txt"
copy_safe_peek(ext) == ext = "txt"

Transactions == [user : Users \cup {None}, history : Histories \cup {None}]

----------------------------------------------------------------------------
\* Outcomes of a call: a normal return carries rval, a raise carries no value.

Return(v) == [raised |-> "", rval |-> v]
Raise(e) == [raised |-> e]

----------------------------------------------------------------------------
\* Collaborators of HDAManager that live in other modules of the application.

\* users.UserManager.is_admin: the user exists and is listed as an admin.
is_admin(trans, user) == user # None /\ user \in Admins

\* users.UserManager.is_anonymous: no user.
is_anonymous(user) == user = None

\* hda.state is the state of the underlying dataset.
hda_state(H, D, i) == D[H[i].dataset].state

\* A dataset: its state, the bytes it holds on disk (size), the size recorded
\* in the database (file_size, None while not recorded), whether a library
\* holds it (library_associations) and whether it is purged.

\* model.Dataset.get_size: the recorded size, else the size on disk.
get_size(D, d) == IF D[d].file_size # None THEN D[d].file_size ELSE D[d].size

\* model.Dataset.set_size (through hda.set_size()): record the size on disk
\* unless a size is recorded already.
set_size(D, d) ==
    IF D[d].file_size = None THEN [D EXCEPT ![d].file_size = D[d].size] ELSE D

\* model.HistoryDatasetAssociation.quota_amount: what the HDA charges `user`.
\* Nothing for an anonymous user, nothing for a library dataset, nothing once
\* the HDA or its dataset is purged, nothing when the user holds another live
\* HDA of the same dataset.
quota_amount(H, D, i, user) ==
    IF user = None THEN 0
    ELSE IF D[H[i].dataset].library THEN 0
    ELSE IF H[i].purged \/ D[H[i].dataset].purged THEN 0
    ELSE IF \E k \in DOMAIN H :
                /\ k # i
                /\ H[k].dataset = H[i].dataset
                /\ ~H[k].purged
                /\ H[k].history # None
                /\ HistoryUser[H[k].history] # None
                /\ HistoryUser[H[k].history] = user
         THEN 0
         ELSE get_size(D, H[i].dataset)

\* Session.add of object i: a not yet persistent object becomes pending.
SessionAdd(S, H, i) == IF H[i].id = None THEN [S EXCEPT !.new = @ \cup {i}] ELSE S

\* An attribute of object i was set: a persistent object becomes dirty.
SessionTouch(S, H, i) == IF H[i].id # None THEN [S EXCEPT !.dirty = @ \cup {i}] ELSE S

\* Session.flush: pending objects are inserted and get their id, changes are
\* written; nothing is left pending.  The sequence is built element by
\* element, so that the value kept in the state is a plain sequence.
FlushedHdas(S, H) ==
    LET RECURSIVE Upto(_)
        Upto(k) ==
            IF k = 0 THEN <<>>
            ELSE Append(Upto(k - 1),
                        IF k \in S.new THEN [H[k] EXCEPT !.id = k] ELSE H[k])
    IN  Upto(Len(H))

FlushedSession == [new |-> {}, dirty |-> {}]

\* model.History.add_dataset( dataset, set_hid=True, quota=True ) on HDA i of H:
\* the HDA takes the history's next hid, its quota is charged to the history's
\* user, and it joins the history.  Yields the new <<hdas, hid_counter, usage>>.
add_dataset(H, D, counter, usage, history, i, set_hid) ==
    LET H1 == IF set_hid THEN [H EXCEPT ![i].hid = counter[history]] ELSE H
        c1 == IF set_hid THEN [counter EXCEPT ![history] = @ + 1] ELSE counter
        u  == HistoryUser[history]
        u1 == IF u # None
              THEN [usage EXCEPT ![u] = @ + quota_amount(H1, D, i, u)]
              ELSE usage
        H2 == [H1 EXCEPT ![i].history = history]
    IN  <<H2, c1, u1>>

\* model.HistoryDatasetAssociation( ... ): a transient object, number `self`
\* in hdas.  metadata and peek are tokens: metadata names the HDA whose
\* metadata values the field holds (a fresh object holds its own), peek names
\* the HDA the peek was generated for (None: no peek yet).
NewHDA(self, history, hid, dataset, ext, peek) ==
    [history |-> history, hid |-> hid, dataset |-> dataset, id |-> None,
     purged |-> FALSE, extension |-> ext, metadata |-> self, peek |-> peek,
     copied_from |-> None, copied_from_ldda |-> None]

\* Dataset( state=Dataset.states.NEW ), built when create gets no dataset.
NewDataset ==
    [state |-> "new", size |-> 0, file_size |-> None, library |-> FALSE,
     purged |-> FALSE]

----------------------------------------------------------------------------
\* Security and permissions.

\* HDAManager.is_owner.  `history.user` on an HDA without a history is an
\* attribute access on None.
is_owner(trans, hda, user) ==
    IF is_admin(trans, user) THEN Return(TRUE)
    ELSE IF is_anonymous(user) /\ hda.history = trans.history THEN Return(TRUE)
    ELSE IF hda.history = None THEN Raise("AttributeError")
    ELSE Return(HistoryUser[hda.history] = user)

\* HDAManager.is_accessible with the owner override left out.
is_accessible_no_override(trans, hda, user, inherited) ==
    [raised |-> "", rval |-> inherited, consulted |-> TRUE]

\* HDAManager.is_accessible.  `inherited` is what the dataset-level check of
\* the base class would answer; `consulted` tells whether it was asked.
is_accessible(trans, hda, user, inherited) ==
    LET owner == is_owner(trans, hda, user)
    IN  IF owner.raised # "" THEN [raised |-> owner.raised, consulted |-> FALSE]
        ELSE IF owner.rval THEN [raised |-> "", rval |-> TRUE, consulted |-> FALSE]
        ELSE [raised |-> "", rval |-> inherited, consulted |-> TRUE]

----------------------------------------------------------------------------
\* States.

\* error_if_uploading testing for the wrong state.
error_if_uploading_new(H, D, i) ==
    IF hda_state(H, D, i) = "new" THEN Raise("Conflict") ELSE Return(i)

\* HDAManager.error_if_uploading.
error_if_uploading(H, D, i) ==
    IF hda_state(H, D, i) = UPLOAD THEN Raise("Conflict") ELSE Return(i)

----------------------------------------------------------------------------
\* Data.

MAX_PEEK_SIZE == 1000000

\* The names bound inside text_data when line 199 runs.  Python names are
\* case sensitive and the module defines no global max_peek_size.
TextDataScope ==
    {"self", "hda", "preview", "MAX_PEEK_SIZE", "truncated", "hda_data"}

Min(a, b) == IF a < b THEN a ELSE b

\* HDAManager.text_data.  `exists` and `st_size` are what os.path.exists and
\* os.stat answer for hda.file_name.  The data read is modelled by its length.
text_data(hda, preview, exists, st_size) ==
    IF ~IsText(hda.extension)
    THEN Return([truncated |-> FALSE, is_none |-> TRUE, length |-> 0])
    ELSE IF ~exists
    THEN Return([truncated |-> FALSE, is_none |-> TRUE, length |-> 0])
    ELSE LET truncated == preview /\ st_size > MAX_PEEK_SIZE
         IN  IF "max_peek_size" \in TextDataScope
             THEN Return([truncated |-> truncated, is_none |-> FALSE,
                          length |-> Min(st_size, MAX_PEEK_SIZE)])
             ELSE Raise("NameError")

----------------------------------------------------------------------------
\* Create and copy.

\* The keyword arguments create looks at: no 'hid' key, or hid=None.
HidArgs == {None}
Kwargs == {[k \in {} |-> None]} \cup {[k \in {"hid"} |-> v] : v \in HidArgs}

NoFrame == [hda |-> None, copy |-> None]

\* HDAManager.create( trans, history, dataset, flush, extension=ext, **kwargs ).
\* trans is only handed on to the constructor call and decides nothing.
create(history, dataset, flush, ext, kwargs) ==
    /\ pc = "idle"
    /\ Len(hdas) < MaxHDAs
    /\ LET i    == Len(hdas) + 1
           \* if not dataset: kwargs[ 'create_dataset' ] = True
           D1   == IF dataset = None THEN Append(datasets, NewDataset) ELSE datasets
           d    == IF dataset = None THEN Len(D1) ELSE dataset
           \* super().create: the constructor, then add and flush when flush
           hid0 == IF "hid" \in DOMAIN kwargs THEN kwargs["hid"] ELSE None
           H0   == Append(hdas, NewHDA(i, history, hid0, d, ext, None))
           S1   == IF flush THEN FlushedSession ELSE session
           H1   == IF flush THEN FlushedHdas(SessionAdd(session, H0, i), H0) ELSE H0
           \* set_hid = not ( 'hid' in kwargs ) is computed and never used:
           \* history.add_dataset( hda ) runs with its default set_hid=True
           set_hid == ~("hid" \in DOMAIN kwargs)
           added == IF history # None
                    THEN add_dataset(H1, D1, hid_counter, total_disk_usage,
                                     history, i, TRUE)
                    ELSE <<H1, hid_counter, total_disk_usage>>
           H2   == added[1]
           S2   == IF history # None THEN SessionTouch(S1, H2, i) ELSE S1
           \* self.session().add( hda ); if flush: self.session().flush()
           S3   == SessionAdd(S2, H2, i)
       IN  /\ datasets' = D1
           /\ hdas' = IF flush THEN FlushedHdas(S3, H2) ELSE H2
           /\ session' = IF flush THEN FlushedSession ELSE S3
           /\ hid_counter' = added[2]
           /\ total_disk_usage' = added[3]
           /\ call' = [op |-> "create", rval |-> i]
    /\ UNCHANGED <<pc, frame>>

\* HDAManager.copy, lines 104-127: build the copy, add it to the history,
\* record where it was copied from, record the size, add it to the session.
\* trans is not used.
copy_construct(i, history) ==
    /\ pc = "idle"
    /\ Len(hdas) < MaxHDAs
    /\ i \in DOMAIN hdas
    /\ LET j  == Len(hdas) + 1
           H0 == Append(hdas, NewHDA(j, None, None, hdas[i].dataset,
                                     hdas[i].extension, hdas[i].peek))
           added == IF history # None
                    THEN add_dataset(H0, datasets, hid_counter, total_disk_usage,
                                     history, j, TRUE)
                    ELSE <<H0, hid_counter, total_disk_usage>>
           H1 == [added[1] EXCEPT ![j].copied_from = i]
       IN  /\ hdas' = H1
           \* copy.set_size()
           /\ datasets' = set_size(datasets, hdas[i].dataset)
           /\ hid_counter' = added[2]
           /\ total_disk_usage' = added[3]
           /\ session' = SessionAdd(session, H1, j)
           /\ frame' = [hda |-> i, copy |-> j]
    /\ pc' = "added"
    /\ UNCHANGED call

\* HDAManager.copy, line 128: self.session().flush()
copy_flush ==
    /\ pc = "added"
    /\ hdas' = FlushedHdas(session, hdas)
    /\ session' = FlushedSession
    /\ pc' = "flushed"
    /\ UNCHANGED <<datasets, hid_counter, total_disk_usage, frame, call>>

\* The metadata assignment done before the first flush.
copy_metadata_unflushed ==
    /\ pc = "added"
    /\ hdas' = [hdas EXCEPT ![frame.copy].metadata = hdas[frame.hda].metadata]
    /\ session' = SessionTouch(session, hdas, frame.copy)
    /\ pc' = "metadata"
    /\ UNCHANGED <<datasets, hid_counter, total_disk_usage, frame, call>>

\* HDAManager.copy, line 129: copy.metadata = hda.metadata
copy_metadata ==
    /\ pc = "flushed"
    /\ hdas' = [hdas EXCEPT ![frame.copy].metadata = hdas[frame.hda].metadata]
    /\ session' = SessionTouch(session, hdas, frame.copy)
    /\ pc' = "metadata"
    /\ UNCHANGED <<datasets, hid_counter, total_disk_usage, frame, call>>

\* HDAManager.copy, lines 132-133: regenerate the peek unless it is safe to copy.
copy_peek ==
    /\ pc = "metadata"
    /\ IF ~copy_safe_peek(hdas[frame.hda].extension)
       THEN /\ hdas' = [hdas EXCEPT ![frame.copy].peek = frame.copy]
            /\ session' = SessionTouch(session, hdas, frame.copy)
       ELSE UNCHANGED <<hdas, session>>
    /\ pc' = "peek"
    /\ UNCHANGED <<datasets, hid_counter, total_disk_usage, frame, call>>

\* HDAManager.copy, lines 135-136: the final flush and the return.
copy_return ==
    /\ pc = "peek"
    /\ hdas' = FlushedHdas(session, hdas)
    /\ session' = FlushedSession
    /\ call' = [op |-> "copy", rval |-> frame.copy]
    /\ frame' = NoFrame
    /\ pc' = "idle"
    /\ UNCHANGED <<datasets, hid_counter, total_disk_usage>>

\* The library dataset associations that can be copied into a history: one
\* per datatype, over the library dataset.  Their ids are negative to keep
\* them apart from HDAs in the metadata and peek tokens.
LDDAs ==
    {[id |-> -1, dataset |-> 2, extension |-> "txt"],
     [id |-> -2, dataset |-> 2, extension |-> "gmaj.zip"]}

\* model.LibraryDatasetDatasetAssociation.to_history_dataset_association(
\* history, add_to_history=add ): build the HDA in the history, add and
\* flush it, take over the metadata, add it to the history, regenerate the
\* peek unless it is safe to copy, flush.  On the HDAs H, datasets D, session
\* S, hid counters and usage given, yields <<hdas, hid_counter, usage>>; the
\* session is left flushed.
to_history_dataset_association(H, D, S, counter, usage, ldda, history, add) ==
    LET j  == Len(H) + 1
        H0 == Append(H, NewHDA(j, history, None, ldda.dataset, ldda.extension,
                               ldda.id))
        H1 == [H0 EXCEPT ![j].copied_from_ldda = ldda.id]
        H2 == FlushedHdas(SessionAdd(S, H1, j), H1)
        H3 == [H2 EXCEPT ![j].metadata = ldda.id]
        added == IF add /\ history # None
                 THEN add_dataset(H3, D, counter, usage, history, j, TRUE)
                 ELSE <<H3, counter, usage>>
        H4 == IF ~copy_safe_peek(ldda.extension)
              THEN [added[1] EXCEPT ![j].peek = j]
              ELSE added[1]
    IN  <<H4, added[2], added[3]>>

\* HDAManager.copy_ldda( trans, history, ldda )
copy_ldda(history, ldda) ==
    /\ pc = "idle"
    /\ Len(hdas) < MaxHDAs
    /\ LET made == to_history_dataset_association(
                       hdas, datasets, session, hid_counter, total_disk_usage,
                       ldda, history, TRUE)
       IN  /\ hdas' = made[1]
           /\ hid_counter' = made[2]
           /\ total_disk_usage' = made[3]
    /\ session' = FlushedSession
    /\ call' = [op |-> "copy_ldda", rval |-> Len(hdas) + 1]
    /\ UNCHANGED <<datasets, pc, frame>>

----------------------------------------------------------------------------
\* Deletion and purging.

\* super().purge (DatasetAssociationManager.purge): the HDA is marked purged,
\* flushed when asked, and the dataset is purged when the user can purge it,
\* that is when no library holds it and every HDA of it is purged.  Yields <<hdas, datasets,
\* session>>.  Purging by users is taken to be allowed by the configuration.
super_purge(H, D, S, i, flush) ==
    LET H1 == [H EXCEPT ![i].purged = TRUE]
        S1 == SessionAdd(SessionTouch(S, H, i), H, i)
        d  == H[i].dataset
        user_can_purge ==
            /\ ~D[d].purged
            /\ ~D[d].library
            /\ \A k \in DOMAIN H1 : H1[k].dataset = d => H1[k].purged
        D1 == IF user_can_purge THEN [D EXCEPT ![d].purged = TRUE] ELSE D
    IN  <<IF flush THEN FlushedHdas(S1, H1) ELSE H1, D1,
          IF flush THEN FlushedSession ELSE S1>>

\* HDAManager.purge( trans, hda, flush ); of trans only trans.user is read.
purge(trans, i, flush) ==
    /\ pc = "idle"
    /\ i \in DOMAIN hdas
    /\ LET purged == super_purge(hdas, datasets, session, i, flush)
       IN  /\ hdas' = purged[1]
           /\ datasets' = purged[2]
           /\ session' = purged[3]
           \* trans.user.total_disk_usage -= hda.quota_amount( trans.user ),
           \* evaluated on the HDA as super().purge left it
           /\ total_disk_usage' =
                 IF trans.user # None
                 THEN [total_disk_usage EXCEPT ![trans.user] =
                          @ - quota_amount(purged[1], purged[2], i, trans.user)]
                 ELSE total_disk_usage
           /\ call' = [op |-> "purge", rval |-> i]
    /\ UNCHANGED <<hid_counter, pc, frame>>

----------------------------------------------------------------------------
\* The manager over a database holding no HDA and two datasets: one whose
\* size is not recorded yet, and one held by a library.

Init ==
    /\ hdas = <<>>
    /\ datasets = <<[state |-> "ok", size |-> InitialDatasetSize,
                      file_size |-> None, library |-> FALSE, purged |-> FALSE],
                     [state |-> "ok", size |-> InitialDatasetSize,
                      file_size |-> InitialDatasetSize, library |-> TRUE,
                      purged |-> FALSE]>>
    /\ hid_counter = [h \in Histories |-> 1]
    /\ total_disk_usage = [u \in Users |-> 0]
    /\ session = FlushedSession
    /\ pc = "idle"
    /\ frame = NoFrame
    /\ call = [op |-> "none"]

Next ==
    \/ \E history \in Histories \cup {None},
          dataset \in DOMAIN datasets \cup {None}, flush \in BOOLEAN,
          ext \in Extensions, kwargs \in Kwargs :
            create(history, dataset, flush, ext, kwargs)
    \/ \E i \in DOMAIN hdas, history \in Histories \cup {None} :
            copy_construct(i, history)
    \/ \E history \in Histories \cup {None}, ldda \in LDDAs :
            copy_ldda(history, ldda)
    \/ copy_flush
    \/ copy_metadata
    \/ copy_peek
    \/ copy_return
    \/ \E user \in Users \cup {None}, i \in DOMAIN hdas, flush \in BOOLEAN :
            purge([user |-> user, history |-> None], i, flush)

Spec == Init /\ [][Next]_vars

\* The operations with purge called with its default flush=True only.
CopyNext ==
    \/ \E history \in Histories \cup {None},
          dataset \in DOMAIN datasets \cup {None}, flush \in BOOLEAN,
          ext \in Extensions, kwargs \in Kwargs :
            create(history, dataset, flush, ext, kwargs)
    \/ \E i \in DOMAIN hdas, history \in Histories \cup {None} :
            copy_construct(i, history)
    \/ \E history \in Histories \cup {None}, ldda \in LDDAs :
            copy_ldda(history, ldda)
    \/ copy_flush
    \/ copy_metadata
    \/ copy_peek
    \/ copy_return
    \/ \E user \in Users \cup {None}, i \in DOMAIN hdas :
            purge([user |-> user, history |-> None], i, TRUE)

CopySpec == Init /\ [][CopyNext]_vars

----------------------------------------------------------------------------
\* The read-only operations, applied to a single HDA.  The database holds
\* the HDA as create( history, dataset, extension=ext ) leaves it, over a
\* dataset in any state.

QueryInit ==
    \E history \in Histories \cup {None}, ext \in Extensions, state \in States :
        /\ hdas = <<[history |-> history,
                     hid |-> IF history # None THEN 1 ELSE None,
                     dataset |-> 1, id |-> 1, purged |-> FALSE,
                     extension |-> ext, metadata |-> 1, peek |-> None,
                     copied_from |-> None, copied_from_ldda |-> None]>>
        /\ datasets = <<[state |-> state, size |-> InitialDatasetSize,
                         file_size |-> InitialDatasetSize, library |-> FALSE,
                         purged |-> FALSE]>>
        /\ hid_counter = [h \in Histories |-> IF h = history THEN 2 ELSE 1]
        /\ total_disk_usage =
              [u \in Users |-> IF history # None /\ HistoryUser[history] = u
                               THEN InitialDatasetSize ELSE 0]
        /\ session = FlushedSession
        /\ pc = "idle"
        /\ frame = NoFrame
        /\ call = [op |-> "none"]

Database == <<hdas, datasets, hid_counter, total_disk_usage, session, pc, frame>>

\* is_owner( trans, hda, user )
is_owner_call(trans, i, user) ==
    /\ i \in DOMAIN hdas
    /\ call' = [op |-> "is_owner", trans |-> trans, hda |-> i, user |-> user,
                out |-> is_owner(trans, hdas[i], user)]
    /\ UNCHANGED Database

\* is_accessible( trans, hda, user ); inherited is the answer the base class
\* gives when asked.
is_accessible_call(trans, i, user, inherited) ==
    /\ i \in DOMAIN hdas
    /\ call' = [op |-> "is_accessible", trans |-> trans, hda |-> i, user |-> user,
                inherited |-> inherited,
                out |-> is_accessible(trans, hdas[i], user, inherited)]
    /\ UNCHANGED Database

\* error_if_uploading( trans, hda )
error_if_uploading_call(i) ==
    /\ i \in DOMAIN hdas
    /\ call' = [op |-> "error_if_uploading", hda |-> i,
                out |-> error_if_uploading(hdas, datasets, i)]
    /\ UNCHANGED Database

\* Sizes a file may have, around the peek limit.
FileSizes == {0, MAX_PEEK_SIZE - 1, MAX_PEEK_SIZE, MAX_PEEK_SIZE + 1}

\* text_data( hda, preview ) over a file system where hda.file_name exists or
\* not and has st_size bytes.
text_data_call(i, preview, exists, st_size) ==
    /\ i \in DOMAIN hdas
    /\ call' = [op |-> "text_data", hda |-> i, preview |-> preview,
                exists |-> exists, st_size |-> st_size,
                out |-> text_data(hdas[i], preview, exists, st_size)]
    /\ UNCHANGED Database

QueryNext ==
    \/ \E trans \in Transactions, i \in DOMAIN hdas, user \in Users \cup {None} :
            is_owner_call(trans, i, user)
    \/ \E trans \in Transactions, i \in DOMAIN hdas, user \in Users \cup {None},
          inherited \in BOOLEAN :
            is_accessible_call(trans, i, user, inherited)
    \/ \E i \in DOMAIN hdas : error_if_uploading_call(i)
    \/ \E i \in DOMAIN hdas, preview \in BOOLEAN, exists \in BOOLEAN,
          st_size \in FileSizes :
            text_data_call(i, preview, exists, st_size)

QuerySpec == QueryInit /\ [][QueryNext]_vars

----------------------------------------------------------------------------
\* Properties.

\* C1 (QuerySpec).  is_accessible allows owners: whenever is_owner answers
\* True, is_accessible returns True and the inherited dataset-level check is
\* not consulted; whenever is_owner answers False the inherited check is
\* consulted and its answer is returned; the inherited check is consulted in
\* no other case.
C1_OwnersAreAccessible ==
    call.op = "is_accessible" =>
        LET owner == is_owner(call.trans, hdas[call.hda], call.user)
            out   == call.out
        IN  /\ (owner.raised = "" /\ owner.rval) =>
                  (out.raised = "" /\ out.rval = TRUE /\ ~out.consulted)
            /\ (owner.raised = "" /\ ~owner.rval) =>
                  (out.raised = "" /\ out.consulted /\ out.rval = call.inherited)
            /\ out.consulted => (owner.raised = "" /\ ~owner.rval)

\* An owner was let in although the inherited check would have refused.
C1_OwnerOverridesInherited ==
    /\ call.op = "is_accessible"
    /\ is_owner(call.trans, hdas[call.hda], call.user) = Return(TRUE)
    /\ call.inherited = FALSE
    /\ call.out.raised = ""
    /\ call.out.rval = TRUE

\* C2 (QuerySpec).  is_owner returns, for every trans, hda and user, True
\* exactly when the user is an admin, or the user is anonymous and the HDA's
\* history is the current history of trans, or the user of the HDA's history
\* equals the user; it returns False in every other case.
C2_IsOwnerDecides ==
    call.op = "is_owner" =>
        LET hda == hdas[call.hda]
            a == is_admin(call.trans, call.user)
            b == is_anonymous(call.user) /\ hda.history = call.trans.history
            c == hda.history # None /\ HistoryUser[hda.history] = call.user
        IN  /\ call.out.raised = ""
            /\ call.out.rval = (a \/ b \/ c)

\* C3 (Spec).  create honours an explicit hid: called with a history and with
\* hid=None passed, the returned HDA's hid stays None; called with a history
\* and without a 'hid' keyword, the hid is the history's next available hid.
C3_CreateHonoursExplicitHid ==
    [][\A history \in Histories, dataset \in DOMAIN datasets \cup {None},
          flush \in BOOLEAN, ext \in Extensions, kwargs \in Kwargs :
            create(history, dataset, flush, ext, kwargs) =>
                LET hda == hdas'[call'.rval]
                IN  IF "hid" \in DOMAIN kwargs
                    THEN hda.hid = kwargs["hid"]
                    ELSE hda.hid = hid_counter[history]]_vars

\* C4 (Spec).  purge returns the purged HDA and lowers the total_disk_usage
\* of a logged-in trans.user by hda.quota_amount( trans.user ) as it was
\* before the call; no other user's usage changes (none at all when
\* trans.user is absent), and no usage becomes negative.  Stated for the
\* calls where the HDA can have been charging trans.user: trans.user is absent
\* or is the user of the HDA's history.
C4_PurgeDecreasesUsage ==
    [][\A user \in Users \cup {None}, i \in DOMAIN hdas, flush \in BOOLEAN :
            (/\ purge([user |-> user, history |-> None], i, flush)
             /\ user # None =>
                   (hdas[i].history # None /\ HistoryUser[hdas[i].history] = user))
            =>  /\ call'.rval = i
                /\ hdas'[i].purged
                /\ \A u \in Users :
                      /\ total_disk_usage'[u] =
                            IF u = user
                            THEN total_disk_usage[u]
                                 - quota_amount(hdas, datasets, i, user)
                            ELSE total_disk_usage[u]
                      /\ total_disk_usage'[u] >= 0]_vars

\* C5 (QuerySpec).  text_data never ends in an error: for a Text HDA whose
\* file exists it returns (truncated, data) with data the first
\* min(size, MAX_PEEK_SIZE) bytes and truncated true exactly when preview is
\* set and the size exceeds MAX_PEEK_SIZE; otherwise it returns (False, None).
C5_TextDataReturns ==
    call.op = "text_data" =>
        LET hda == hdas[call.hda]
            out == call.out
        IN  /\ out.raised = ""
            /\ IF IsText(hda.extension) /\ call.exists
               THEN /\ ~out.rval.is_none
                    /\ out.rval.length = Min(call.st_size, MAX_PEEK_SIZE)
                    /\ out.rval.truncated =
                          (call.preview /\ call.st_size > MAX_PEEK_SIZE)
               ELSE /\ out.rval.is_none
                    /\ ~out.rval.truncated

\* C6 (QuerySpec).  error_if_uploading raises Conflict exactly when the HDA's
\* state is UPLOAD, returns the same HDA for every other state, and leaves
\* the HDA and its dataset as they were in both outcomes.
C6_ErrorIfUploading ==
    [][call'.op = "error_if_uploading" =>
          LET i   == call'.hda
              out == call'.out
          IN  /\ (out.raised = "Conflict") <=> (hda_state(hdas, datasets, i) = UPLOAD)
              /\ out.raised # "Conflict" => (out.raised = "" /\ out.rval = i)
              /\ hdas' = hdas
              /\ datasets' = datasets]_vars

\* error_if_uploading refused an HDA that is uploading.
C6_ConflictRaised ==
    /\ call.op = "error_if_uploading"
    /\ hda_state(hdas, datasets, call.hda) = UPLOAD
    /\ call.out.raised = "Conflict"

\* C7 (Spec).  Ordering inside copy, for every copy j of a source i:
\* the metadata is assigned only once the copy was added and flushed (it has
\* an id); the peek is regenerated only after the metadata assignment and
\* only when the source datatype's copy_safe_peek is false; past the peek
\* step and in every finished copy the peek is regenerated exactly when
\* copy_safe_peek is false and the metadata is the source's; when copy has
\* returned, nothing is left unflushed.
C7_CopyOrdering ==
    \A j \in DOMAIN hdas :
        hdas[j].copied_from # None =>
            LET i         == hdas[j].copied_from
                running   == pc # "idle" /\ frame.copy = j
                assigned  == hdas[j].metadata # j
                regenerated == hdas[j].peek = j
                safe      == copy_safe_peek(hdas[i].extension)
            IN  /\ assigned => hdas[j].id # None
                /\ (running /\ pc \in {"added", "flushed"}) => ~assigned
                /\ regenerated => (assigned /\ ~safe)
                /\ (~running \/ pc = "peek") =>
                      /\ assigned
                      /\ hdas[j].metadata = hdas[i].metadata
                      /\ regenerated <=> ~safe
                /\ (pc = "idle" /\ call.op = "copy" /\ call.rval = j) =>
                      /\ hdas[j].id # None
                      /\ session = FlushedSession

\* copy has returned a copy whose peek was regenerated after its metadata
\* was assigned.
C7_CopyReturnedWithNewPeek ==
    /\ pc = "idle"
    /\ call.op = "copy"
    /\ hdas[call.rval].copied_from # None
    /\ hdas[call.rval].peek = call.rval
    /\ hdas[call.rval].metadata = hdas[hdas[call.rval].copied_from].metadata
    /\ hdas[call.rval].id # None

====
